---- MODULE Spec2Model ----
(***************************************************************************)
(* Model of AgentTrustSDK.getWeightedReputation (Open Agent Trust SDK).   *)
(*                                                                         *)
(* The ledger (the TrustGraph contract) is external: the model holds the  *)
(* attestation records it returns for the subject, in the order           *)
(* getAttestations returns their ids.  A JavaScript number is an IEEE-754 *)
(* binary64 value; the arithmetic of the aggregation (+ and /) is         *)
(* modelled with its rounding, on the non-negative values the             *)
(* aggregation produces from non-negative integer scores.                 *)
(***************************************************************************)
EXTENDS Integers, Sequences, FiniteSets, TLC

(***************************************************************************)
(* IEEE-754 binary64, non-negative finite values.                          *)
(* A value is [hi, lo, e] = (hi * 2^26 + lo) * 2^e with a 53-bit           *)
(* significand: 2^26 <= hi < 2^27 and 0 <= lo < 2^26, or zero.             *)
(***************************************************************************)
LoBits == 26

LoBase == 2 ^ LoBits

HiMin == 2 ^ 26

HiLim == 2 ^ 27

Zero == [hi |-> 0, lo |-> 0, e |-> 0]

\* The two results of a division by zero: 0 / 0 and x / 0 for x > 0.
NaN == [hi |-> 0, lo |-> 0, e |-> 1]

Infinity == [hi |-> 0, lo |-> 0, e |-> 2]

IsZero(x) == x = Zero

\* Shift the significand of a non-zero integer below 2^27 up to 53 bits.
RECURSIVE NormHi(_, _)
NormHi(h, e) ==
    IF h >= HiMin THEN [hi |-> h, lo |-> 0, e |-> e] ELSE NormHi(2 * h, e - 1)

\* The number whose value is the integer n, 0 <= n < 2^27 (exact).
FromInt(n) == IF n = 0 THEN Zero ELSE NormHi(n, 0 - LoBits)

(* The discarded fraction of a significand is tracked as                   *)
(* 0: none, 1: below half a unit, 2: exactly half, 3: above half.          *)
\* d bits to the right, 0 <= d <= 26: the bits that leave join the fraction.
ShiftChunk(m, d) ==
    IF d = 0 THEN m
    ELSE LET out  == m.lo % (2 ^ d)
             half == 2 ^ (d - 1)
         IN  [hi   |-> m.hi \div (2 ^ d),
              lo   |-> (m.hi % (2 ^ d)) * (2 ^ (LoBits - d)) + (m.lo \div (2 ^ d)),
              frac |-> IF out > half THEN 3
                       ELSE IF out = half THEN (IF m.frac = 0 THEN 2 ELSE 3)
                       ELSE IF out = 0 /\ m.frac = 0 THEN 0 ELSE 1]

ShiftR(m, d) ==
    IF d <= LoBits THEN ShiftChunk(m, d)
    ELSE IF d <= 2 * LoBits THEN ShiftChunk(ShiftChunk(m, LoBits), d - LoBits)
    ELSE ShiftChunk(ShiftChunk(ShiftChunk(m, LoBits), LoBits), d - 2 * LoBits)

\* Round to nearest, ties to even, a 53-bit significand with its fraction.
RoundNearestEven(m, e) ==
    LET up  == m.frac = 3 \/ (m.frac = 2 /\ m.lo % 2 = 1)
        lo1 == IF up THEN m.lo + 1 ELSE m.lo
        hi1 == m.hi + (lo1 \div LoBase)
    IN  IF hi1 >= HiLim
        THEN [hi |-> HiMin, lo |-> 0, e |-> e + 1]
        ELSE [hi |-> hi1, lo |-> lo1 % LoBase, e |-> e]

\* x + y of two non-zero values with x.e >= y.e.
AddOrdered(x, y) ==
    LET d   == x.e - y.e
        ys  == ShiftR([hi |-> y.hi, lo |-> y.lo, frac |-> 0], d)
        lo0 == x.lo + ys.lo
        s   == [hi |-> x.hi + ys.hi + (lo0 \div LoBase), lo |-> lo0 % LoBase,
                frac |-> ys.frac]
    IN  IF d > 2 * LoBits + 3 THEN x
        ELSE IF s.hi >= HiLim THEN RoundNearestEven(ShiftChunk(s, 1), x.e + 1)
        ELSE RoundNearestEven(s, x.e)

\* The JavaScript a + b on non-negative numbers.
Add(x, y) ==
    IF x = NaN \/ y = NaN THEN NaN
    ELSE IF x = Infinity \/ y = Infinity THEN Infinity
    ELSE IF IsZero(x) THEN y
    ELSE IF IsZero(y) THEN x
    ELSE IF x.e >= y.e THEN AddOrdered(x, y) ELSE AddOrdered(y, x)

\* Extend a quotient by one bit at a time until it has 53 bits.
RECURSIVE ExtendQuotient(_, _, _, _, _)
ExtendQuotient(qh, ql, r, e, k) ==
    IF qh >= HiMin
    THEN RoundNearestEven([hi |-> qh, lo |-> ql,
                           frac |-> IF r = 0 THEN 0
                                    ELSE IF 2 * r < k THEN 1
                                    ELSE IF 2 * r = k THEN 2 ELSE 3], e)
    ELSE LET bit == IF 2 * r >= k THEN 1 ELSE 0
             ql1 == 2 * ql + bit
         IN  ExtendQuotient(2 * qh + (ql1 \div LoBase), ql1 % LoBase,
                            2 * r - k * bit, e - 1, k)

\* The JavaScript x / k for a non-negative x and an integer 0 <= k <= 32.
DivInt(x, k) ==
    IF x = NaN THEN NaN
    ELSE IF x = Infinity THEN Infinity
    ELSE IF k = 0 THEN (IF IsZero(x) THEN NaN ELSE Infinity)
    ELSE IF IsZero(x) THEN Zero
    ELSE LET t == (x.hi % k) * LoBase + x.lo
         IN  ExtendQuotient(x.hi \div k, t \div k, t % k, x.e, k)

(***************************************************************************)
(* Values of the SDK.                                                      *)
(***************************************************************************)
\* An optional string field (namespace?: string): no value, or one string.
Undefined == {}

Some(s) == {s}

\* Every string that is set taken as truthy, the empty one included.
TruthyDefined(opt) == opt # Undefined

\* JavaScript truthiness of an optional string: set and not the empty string.
Truthy(opt) == opt # Undefined /\ opt # Some("")

\* The query argument left out (query?: WeightedReputationQuery).
NoQuery == [namespace |-> Undefined, tag |-> Undefined, given |-> FALSE]

Query(ns, tg) == [namespace |-> ns, tag |-> tg, given |-> TRUE]

\* The record getAttestation returns: the eight fields of the contract's struct.
Attestation(ns, tg, sc, ts) ==
    [fromAgent |-> 7, toAgent |-> 1, namespace |-> ns, tag |-> tg, score |-> sc,
     interactionId |-> "0x01", comment |-> "", timestamp |-> ts]

(***************************************************************************)
(* getWeightedReputation, after the attestations are fetched.              *)
(***************************************************************************)
\* filteredAttestations: query?.namespace, then query?.tag, each if truthy.
FilterByNamespace(attestations, query) ==
    IF Truthy(query.namespace)
    THEN SelectSeq(attestations, LAMBDA a : Some(a.namespace) = query.namespace)
    ELSE attestations

\* The tag filter left out.
FilterByTagSkipped(attestations, query) == attestations

FilterByTag(attestations, query) ==
    IF Truthy(query.tag)
    THEN SelectSeq(attestations, LAMBDA a : Some(a.tag) = query.tag)
    ELSE attestations

\* The tag filter applied to the fetched list instead of the filtered one.
FilteredAttestationsTagOnly(attestations, query) ==
    IF Truthy(query.tag)
    THEN FilterByTag(attestations, query)
    ELSE FilterByNamespace(attestations, query)

FilteredAttestations(attestations, query) ==
    FilterByTag(FilterByNamespace(attestations, query), query)

\* The key made with another separator.
CategoryKeySlash(att) == att.namespace \o "/" \o att.tag

\* const key = `${att.namespace}:${att.tag}`
CategoryKey(att) == att.namespace \o ":" \o att.tag

\* if (!byCategory[key]) byCategory[key] = []; byCategory[key].push(att.score)
\* An object is held as the sequence of its entries in property order:
\* a key with a colon is not an array index, so the order is that of insertion.
\* The score assigned to the key instead of pushed onto its array.
PushScoreOverwrite(byCategory, key, score) ==
    IF \E i \in DOMAIN byCategory : byCategory[i].key = key
    THEN [i \in DOMAIN byCategory |->
            IF byCategory[i].key = key
            THEN [key |-> key, scores |-> <<score>>]
            ELSE byCategory[i]]
    ELSE Append(byCategory, [key |-> key, scores |-> <<score>>])

\* The array of a new key created empty, the score pushed only onto an
\* array that exists.
PushScoreSkipFirst(byCategory, key, score) ==
    IF \E i \in DOMAIN byCategory : byCategory[i].key = key
    THEN [i \in DOMAIN byCategory |->
            IF byCategory[i].key = key
            THEN [key |-> key, scores |-> Append(byCategory[i].scores, score)]
            ELSE byCategory[i]]
    ELSE Append(byCategory, [key |-> key, scores |-> <<>>])

PushScore(byCategory, key, score) ==
    IF \E i \in DOMAIN byCategory : byCategory[i].key = key
    THEN [i \in DOMAIN byCategory |->
            IF byCategory[i].key = key
            THEN [key |-> key, scores |-> Append(byCategory[i].scores, score)]
            ELSE byCategory[i]]
    ELSE Append(byCategory, [key |-> key, scores |-> <<score>>])

RECURSIVE GroupFrom(_, _, _)
GroupFrom(filtered, i, byCategory) ==
    IF i > Len(filtered) THEN byCategory
    ELSE GroupFrom(filtered, i + 1,
                   PushScore(byCategory, CategoryKey(filtered[i]), filtered[i].score))

GroupByCategory(filtered) == GroupFrom(filtered, 1, <<>>)

\* numbers.reduce((a, b) => a + b, 0)
RECURSIVE ReduceAdd(_, _, _)
ReduceAdd(numbers, i, acc) ==
    IF i > Len(numbers) THEN acc ELSE ReduceAdd(numbers, i + 1, Add(acc, numbers[i]))

SumOf(numbers) == ReduceAdd(numbers, 1, Zero)

\* The sum of the scores, not divided by their number.
MeanOfScoresUndivided(scores) ==
    SumOf([i \in DOMAIN scores |-> FromInt(scores[i])])

\* scores.reduce((a, b) => a + b, 0) / scores.length
MeanOfScores(scores) ==
    DivInt(SumOf([i \in DOMAIN scores |-> FromInt(scores[i])]), Len(scores))

\* categoryScores[key] = mean of byCategory[key], for each entry in order.
CategoryScores(byCategory) ==
    [i \in DOMAIN byCategory |->
        [key |-> byCategory[i].key, value |-> MeanOfScores(byCategory[i].scores)]]

\* const allScores = Object.values(categoryScores)
\* overall = allScores.length > 0 ? sum(allScores) / allScores.length : 0
\* The division made without the test for an empty list.
OverallUnguarded(categoryScores) ==
    LET allScores == [i \in DOMAIN categoryScores |-> categoryScores[i].value]
    IN  DivInt(SumOf(allScores), Len(allScores))

\* The sum of the group means returned without the division.
OverallUndivided(categoryScores) ==
    LET allScores == [i \in DOMAIN categoryScores |-> categoryScores[i].value]
    IN  IF Len(allScores) > 0 THEN SumOf(allScores) ELSE Zero

Overall(categoryScores) ==
    LET allScores == [i \in DOMAIN categoryScores |-> categoryScores[i].value]
    IN  IF Len(allScores) > 0 THEN DivInt(SumOf(allScores), Len(allScores)) ELSE Zero

\* const decayFactor = 0.98, held in hundredths.
DecayFactorHundredths == 98

\* Risk level from attestations.length, the count before filtering.
LowAbove == 20

MediumAbove == 10

HighAbove == 5

\* The thresholds taken inclusively.
RiskLevelInclusive(n) ==
    IF n >= LowAbove THEN "low"
    ELSE IF n >= MediumAbove THEN "medium"
    ELSE IF n >= HighAbove THEN "high"
    ELSE "critical"

RiskLevel(n) ==
    IF n > LowAbove THEN "low"
    ELSE IF n > MediumAbove THEN "medium"
    ELSE IF n > HighAbove THEN "high"
    ELSE "critical"

\* overall taken as the mean of all the scores that pass the filter.
WeightedReputationFlat(attestations, query) ==
    LET filtered == FilteredAttestations(attestations, query)
        categoryScores == CategoryScores(GroupByCategory(filtered))
    IN  [overall           |-> IF Len(filtered) > 0
                               THEN MeanOfScores([i \in DOMAIN filtered |-> filtered[i].score])
                               ELSE Zero,
         byCategory        |-> categoryScores,
         decayFactor       |-> DecayFactorHundredths,
         riskLevel         |-> RiskLevel(Len(attestations)),
         suspicionScore    |-> 0,
         totalAttestations |-> Len(attestations)]

\* totalAttestations taken after the filter.
WeightedReputationFilteredCount(attestations, query) ==
    LET filtered == FilteredAttestations(attestations, query)
        categoryScores == CategoryScores(GroupByCategory(filtered))
    IN  [overall           |-> Overall(categoryScores),
         byCategory        |-> categoryScores,
         decayFactor       |-> DecayFactorHundredths,
         riskLevel         |-> RiskLevel(Len(attestations)),
         suspicionScore    |-> 0,
         totalAttestations |-> Len(filtered)]

\* decayFactor lowered when an attestation is older than the others.
WeightedReputationAgeDecay(attestations, query) ==
    LET categoryScores ==
            CategoryScores(GroupByCategory(FilteredAttestations(attestations, query)))
        aged == \E i, j \in DOMAIN attestations :
                    attestations[i].timestamp < attestations[j].timestamp
    IN  [overall           |-> Overall(categoryScores),
         byCategory        |-> categoryScores,
         decayFactor       |-> IF aged THEN DecayFactorHundredths - 1
                               ELSE DecayFactorHundredths,
         riskLevel         |-> RiskLevel(Len(attestations)),
         suspicionScore    |-> 0,
         totalAttestations |-> Len(attestations)]

\* riskLevel taken from the count after the filter.
WeightedReputationFilteredRisk(attestations, query) ==
    LET filtered == FilteredAttestations(attestations, query)
        categoryScores == CategoryScores(GroupByCategory(filtered))
    IN  [overall           |-> Overall(categoryScores),
         byCategory        |-> categoryScores,
         decayFactor       |-> DecayFactorHundredths,
         riskLevel         |-> RiskLevel(Len(filtered)),
         suspicionScore    |-> 0,
         totalAttestations |-> Len(attestations)]

\* The category the query names reported with the value 0 when nothing matches.
WeightedReputationSeeded(attestations, query) ==
    LET filtered == FilteredAttestations(attestations, query)
        seeded   == Truthy(query.namespace) /\ Truthy(query.tag) /\ filtered = <<>>
        categoryScores ==
            IF seeded
            THEN <<[key   |-> (CHOOSE ns \in query.namespace : TRUE) \o ":"
                                \o (CHOOSE tg \in query.tag : TRUE),
                    value |-> Zero]>>
            ELSE CategoryScores(GroupByCategory(filtered))
    IN  [overall           |-> Overall(categoryScores),
         byCategory        |-> categoryScores,
         decayFactor       |-> DecayFactorHundredths,
         riskLevel         |-> RiskLevel(Len(attestations)),
         suspicionScore    |-> 0,
         totalAttestations |-> Len(attestations)]

\* The report returned for the fetched attestations and the query.
WeightedReputation(attestations, query) ==
    LET categoryScores ==
            CategoryScores(GroupByCategory(FilteredAttestations(attestations, query)))
    IN  [overall           |-> Overall(categoryScores),
         byCategory        |-> categoryScores,
         decayFactor       |-> DecayFactorHundredths,
         riskLevel         |-> RiskLevel(Len(attestations)),
         suspicionScore    |-> 0,
         totalAttestations |-> Len(attestations)]

(***************************************************************************)
(* State.                                                                  *)
(***************************************************************************)
VARIABLES
    ledger,     \* the subject's attestation records on the TrustGraph contract,
                \* in the order getAttestations returns their ids (id = index)
    last,       \* <<>> or <<call>>: the last getWeightedReputation call, as
                \* [query, ledger at the call, the order in which its fetches
                \* completed, attestations fetched, report]
    earlier,    \* <<>> or <<call>>: a call before the last one, kept by the caller
    config,     \* the argument the instance was constructed with
    sdk,        \* the fields of the instance: provider, signer, contract bindings
    chain,      \* the interactions, schemas and trust edges the contracts hold
    txs,        \* the transactions sent to the contracts, in the order sent
    op          \* the call of an SDK method in flight, or the last one completed

vars == <<ledger, last, earlier, config, sdk, chain, txs, op>>

\* The agent whose attestations the ledger holds.
Subject == 1

\* The address of the wallet of the private key, and BigInt(address).
SignerAddress == "0x07"

WalletAddress(privateKey) == SignerAddress

BigIntOf(address) == IF address = "0x07" THEN 7 ELSE 0

\* SDKConfig: rpcUrl, privateKey?, addresses.
Config(privateKey) ==
    [rpcUrl     |-> "rpc",
     privateKey |-> privateKey,
     addresses  |-> [interactionRegistry       |-> "0xIR",
                     attestationSchemaRegistry |-> "0xSR",
                     trustGraph                |-> "0xTG"]]

\* new ethers.Contract(address, abi, this.signer || this.provider)
Contract(address, signer) ==
    [address |-> address,
     runner  |-> IF signer # Undefined THEN "signer" ELSE "provider"]

\* The constructor: a signer only for a truthy privateKey.
AgentTrustSDK(cfg) ==
    LET signer == IF Truthy(cfg.privateKey)
                  THEN Some(WalletAddress(CHOOSE k \in cfg.privateKey : TRUE))
                  ELSE Undefined
    IN  [provider            |-> cfg.rpcUrl,
         nonceManager        |-> signer,
         signer              |-> signer,
         interactionRegistry |-> Contract(cfg.addresses.interactionRegistry, signer),
         schemaRegistry      |-> Contract(cfg.addresses.attestationSchemaRegistry, signer),
         trustGraph          |-> Contract(cfg.addresses.trustGraph, signer)]

\* A call of an SDK method: its name, whether it waits for a receipt or is
\* done, the transaction it sent (0: none), the contract methods it invoked,
\* what it threw or returned, and for a write method <<params>>, the argument
\* it was called with.
NoCall ==
    [name |-> "", pc |-> "done", tx |-> 0, calls |-> <<>>, threw |-> FALSE,
     value |-> <<>>, args |-> <<>>]

Returned(name, calls, tx, value) ==
    [name |-> name, pc |-> "done", tx |-> tx, calls |-> calls, threw |-> FALSE,
     value |-> <<value>>, args |-> <<>>]

Thrown(name, calls, tx, message) ==
    [name |-> name, pc |-> "done", tx |-> tx, calls |-> calls, threw |-> TRUE,
     value |-> <<message>>, args |-> <<>>]

Waiting(name, calls, tx) ==
    [name |-> name, pc |-> "wait", tx |-> tx, calls |-> calls, threw |-> FALSE,
     value |-> <<>>, args |-> <<>>]

\* The call of a write method with its argument.
Called(call, args) == [call EXCEPT !.args = args]

\* One invocation of a method of a contract binding.
Invocation(contract, method, args) ==
    [contract |-> contract, method |-> method, args |-> args]

\* trustGraph.getAttestations(agentId): the ids of the subject's attestations.
GetAttestations == [i \in 1..Len(ledger) |-> i]

\* getAttestation(id): the contract's record, copied field by field.
GetAttestation(attestationId) ==
    LET attestation == ledger[attestationId]
    IN  [fromAgent     |-> attestation.fromAgent,
         toAgent       |-> attestation.toAgent,
         namespace     |-> attestation.namespace,
         tag           |-> attestation.tag,
         score         |-> attestation.score,
         interactionId |-> attestation.interactionId,
         comment       |-> attestation.comment,
         timestamp     |-> attestation.timestamp]

\* The contract methods one getWeightedReputation call invokes.
ReputationCalls(attestationIds) ==
    <<Invocation("trustGraph", "getAttestations", <<Subject>>)>>
        \o [i \in DOMAIN attestationIds |->
               Invocation("trustGraph", "getAttestation", <<attestationIds[i]>>)]

\* An incremental update: only the ids past those of the last call are fetched.
GetWeightedReputationIncremental(query, keep) ==
    LET attestationIds == GetAttestations
        seen           == IF last = <<>> THEN 0 ELSE Len(last[1].attestations)
        fresh          == SelectSeq(attestationIds, LAMBDA id : id > seen)
        attestations   == [i \in DOMAIN fresh |-> GetAttestation(fresh[i])]
        call == [query        |-> query,
                 ledger       |-> ledger,
                 arrival      |-> [i \in DOMAIN fresh |-> i],
                 attestations |-> attestations,
                 report       |-> WeightedReputation(attestations, query)]
    IN  /\ op.pc = "done"
        /\ last' = <<call>>
        /\ earlier' = IF keep THEN last ELSE earlier
        /\ op' = Returned("getWeightedReputation", ReputationCalls(fresh), 0,
                          call.report)
        /\ UNCHANGED <<ledger, config, sdk, chain, txs>>

\* The attestations with the lowest scores first.
RECURSIVE SortedByScore(_)
SortedByScore(atts) ==
    IF atts = <<>> THEN <<>>
    ELSE LET low == CHOOSE i \in DOMAIN atts :
                        \A j \in DOMAIN atts :
                            atts[i].score < atts[j].score
                                \/ (atts[i].score = atts[j].score /\ i <= j)
         IN  <<atts[low]>>
                \o SortedByScore([k \in 1..(Len(atts) - 1) |->
                                    IF k < low THEN atts[k] ELSE atts[k + 1]])

\* The fetched array sorted in place before it is filtered.
GetWeightedReputationSorting(query, keep) ==
    LET attestationIds == GetAttestations
        attestations   == SortedByScore([i \in DOMAIN attestationIds |->
                              GetAttestation(attestationIds[i])])
        call == [query        |-> query,
                 ledger       |-> ledger,
                 arrival      |-> [i \in DOMAIN attestationIds |-> i],
                 attestations |-> attestations,
                 report       |-> WeightedReputation(attestations, query)]
    IN  /\ op.pc = "done"
        /\ last' = <<call>>
        /\ earlier' = IF keep THEN last ELSE earlier
        /\ op' = Returned("getWeightedReputation", ReputationCalls(attestationIds),
                          0, call.report)
        /\ UNCHANGED <<ledger, config, sdk, chain, txs>>

\* A cache keyed by the query: a call with the query of the call before it
\* returns the report of that call without reading the ledger.
GetWeightedReputationCached(query, keep) ==
    LET attestationIds == GetAttestations
        attestations   == [i \in DOMAIN attestationIds |->
                              GetAttestation(attestationIds[i])]
        hit  == last # <<>> /\ last[1].query = query
        call == [query        |-> query,
                 ledger       |-> ledger,
                 arrival      |-> IF hit THEN <<>> ELSE [i \in DOMAIN attestationIds |-> i],
                 attestations |-> IF hit THEN last[1].attestations ELSE attestations,
                 report       |-> IF hit THEN last[1].report
                                  ELSE WeightedReputation(attestations, query)]
    IN  /\ op.pc = "done"
        /\ last' = <<call>>
        /\ earlier' = IF keep THEN last ELSE earlier
        /\ op' = Returned("getWeightedReputation",
                          IF hit THEN <<>> ELSE ReputationCalls(attestationIds),
                          0, call.report)
        /\ UNCHANGED <<ledger, config, sdk, chain, txs>>

\* getWeightedReputation(agentId, query): fetch the ids, fetch every record
\* (Promise.all keeps the order of the ids), aggregate, return the report.
\* keep: whether the caller keeps the result of the call before this one.
GetWeightedReputation(query, keep) ==
    LET attestationIds == GetAttestations
        attestations   == [i \in DOMAIN attestationIds |->
                              GetAttestation(attestationIds[i])]
        call == [query        |-> query,
                 ledger       |-> ledger,
                 arrival      |-> [i \in DOMAIN attestationIds |-> i],
                 attestations |-> attestations,
                 report       |-> WeightedReputation(attestations, query)]
    IN  /\ op.pc = "done"
        /\ last' = <<call>>
        /\ earlier' = IF keep THEN last ELSE earlier
        /\ op' = Returned("getWeightedReputation", ReputationCalls(attestationIds),
                          0, call.report)
        /\ UNCHANGED <<ledger, config, sdk, chain, txs>>

(***************************************************************************)
(* getWeightedReputation fetch by fetch: the ids are read, one             *)
(* getAttestation is started per id, the fetches complete in any order,    *)
(* and Promise.all resolves when all have, with the records in the order   *)
(* of the ids.                                                             *)
(***************************************************************************)
\* The call between the start of the fetches and the end of Promise.all: a
\* slot per id, <<>> while its fetch is pending, and the slots in the order
\* in which their fetches completed.
Fetching(query, attestationIds, slots, arrival) ==
    [name |-> "getWeightedReputation", pc |-> "fetch", tx |-> 0,
     calls |-> ReputationCalls(attestationIds), threw |-> FALSE,
     value |-> <<[query |-> query, attestationIds |-> attestationIds,
                  slots |-> slots, arrival |-> arrival]>>,
     args |-> <<>>]

\* const attestationIds = await this.getAttestations(agentId);
\* attestationIds.map((id) => this.getAttestation(id))
GetWeightedReputationStart(query) ==
    /\ op.pc = "done"
    /\ op' = Fetching(query, GetAttestations,
                      [i \in DOMAIN GetAttestations |-> <<>>], <<>>)
    /\ UNCHANGED <<ledger, last, earlier, config, sdk, chain, txs>>

\* The record of a completed fetch put in the first free slot.
FetchCompletesFirstFree(i) ==
    /\ op.pc = "fetch"
    /\ LET fetch == op.value[1]
           free  == CHOOSE k \in DOMAIN fetch.slots :
                        /\ fetch.slots[k] = <<>>
                        /\ \A m \in 1..(k - 1) : fetch.slots[m] # <<>>
       IN  /\ i \in DOMAIN fetch.slots
           /\ i \notin {fetch.arrival[k] : k \in DOMAIN fetch.arrival}
           /\ op' = Fetching(fetch.query, fetch.attestationIds,
                             [fetch.slots EXCEPT ![free] =
                                 <<GetAttestation(fetch.attestationIds[i])>>],
                             Append(fetch.arrival, i))
    /\ UNCHANGED <<ledger, last, earlier, config, sdk, chain, txs>>

\* The i-th getAttestation of the call completes: Promise.all keeps its
\* record at the index of its promise.
FetchCompletes(i) ==
    /\ op.pc = "fetch"
    /\ LET fetch == op.value[1]
       IN  /\ i \in DOMAIN fetch.slots
           /\ i \notin {fetch.arrival[k] : k \in DOMAIN fetch.arrival}
           /\ op' = Fetching(fetch.query, fetch.attestationIds,
                             [fetch.slots EXCEPT ![i] =
                                 <<GetAttestation(fetch.attestationIds[i])>>],
                             Append(fetch.arrival, i))
    /\ UNCHANGED <<ledger, last, earlier, config, sdk, chain, txs>>

\* The error a read of the trustGraph contract rejects with.
FetchError(invocation) ==
    "could not reach the node: " \o invocation.method
        \o "(" \o ToString(invocation.args[1]) \o ")"

\* await this.getAttestations(agentId) rejects: the method throws the error.
GetAttestationsFails(query) ==
    /\ op.pc = "done"
    /\ LET calls == <<Invocation("trustGraph", "getAttestations", <<Subject>>)>>
       IN  op' = Thrown("getWeightedReputation", calls, 0, FetchError(calls[1]))
    /\ UNCHANGED <<ledger, last, earlier, config, sdk, chain, txs>>

\* The failed fetch left out: the report of the records fetched so far.
FetchFailsPartial(i) ==
    /\ op.pc = "fetch"
    /\ LET fetch == op.value[1]
           done  == SelectSeq(fetch.slots, LAMBDA slot : slot # <<>>)
           attestations == [k \in DOMAIN done |-> done[k][1]]
           call == [query        |-> fetch.query,
                    ledger       |-> ledger,
                    arrival      |-> fetch.arrival,
                    attestations |-> attestations,
                    report       |-> WeightedReputation(attestations, fetch.query)]
       IN  /\ i \in DOMAIN fetch.slots
           /\ i \notin {fetch.arrival[k] : k \in DOMAIN fetch.arrival}
           /\ last' = <<call>>
           /\ op' = Returned("getWeightedReputation", op.calls, 0, call.report)
    /\ UNCHANGED <<ledger, earlier, config, sdk, chain, txs>>

\* The i-th getAttestation of the call rejects: Promise.all rejects with its
\* error at once, the await throws it, and the method ends; what the fetches
\* still pending settle to is dropped.
FetchFails(i) ==
    /\ op.pc = "fetch"
    /\ LET fetch == op.value[1]
       IN  /\ i \in DOMAIN fetch.slots
           /\ i \notin {fetch.arrival[k] : k \in DOMAIN fetch.arrival}
           /\ op' = Thrown("getWeightedReputation", op.calls, 0,
                           FetchError(Invocation("trustGraph", "getAttestation",
                                                 <<fetch.attestationIds[i]>>)))
    /\ UNCHANGED <<ledger, last, earlier, config, sdk, chain, txs>>

\* Promise.all has resolved: the rest of the method, on the array of records.
GetWeightedReputationAggregate ==
    /\ op.pc = "fetch"
    /\ LET fetch == op.value[1]
           attestations == [i \in DOMAIN fetch.slots |-> fetch.slots[i][1]]
           call == [query        |-> fetch.query,
                    ledger       |-> ledger,
                    arrival      |-> fetch.arrival,
                    attestations |-> attestations,
                    report       |-> WeightedReputation(attestations, fetch.query)]
       IN  /\ \A i \in DOMAIN fetch.slots : fetch.slots[i] # <<>>
           /\ last' = <<call>>
           /\ op' = Returned("getWeightedReputation", op.calls, 0, call.report)
    /\ UNCHANGED <<ledger, earlier, config, sdk, chain, txs>>

(***************************************************************************)
(* The contracts: transactions, receipts and reads.                        *)
(***************************************************************************)
\* The transaction a write method of a contract binding sends.
Transaction(contract, method, args) ==
    [to |-> contract.address, method |-> method, args |-> args,
     from |-> CHOOSE a \in sdk.signer : TRUE, status |-> "pending", logs |-> <<>>]

\* receipt.hash of the i-th transaction sent.
TxHash(i) == "0xtx" \o ToString(i)

\* eventFragment.topicHash of an event of a contract's interface.
TopicHash(event) == "0xtopic:" \o event

\* The id the registry gives to its n-th interaction or schema.
RegistryId(n) == "0xid" \o ToString(n)

\* The time of the block a transaction is mined in.
BlockTime == 400

\* The logs a mined transaction can carry: none, the event of the method with
\* the new id as its second topic, that event after a log of another kind, or
\* that event before a second log of its kind with another id.
EventOf(method) ==
    IF method = "registerInteraction" THEN "InteractionRegistered"
    ELSE IF method = "registerSchema" THEN "SchemaRegistered"
    ELSE "Other"

LogChoices(method, id) ==
    IF EventOf(method) = "Other" THEN {<<>>}
    ELSE {<<>>,
          <<[topics |-> <<TopicHash(EventOf(method)), id>>]>>,
          <<[topics |-> <<TopicHash("Other"), "0x00">>],
            [topics |-> <<TopicHash(EventOf(method)), id>>]>>,
          <<[topics |-> <<TopicHash(EventOf(method)), id>>],
            [topics |-> <<TopicHash(EventOf(method)), "0x00">>]>>}

\* What a mined transaction changes on the contracts.
TrustWithout(fromAgent, toAgent) ==
    SelectSeq(chain.trust, LAMBDA t : ~(t.fromAgent = fromAgent /\ t.toAgent = toAgent))

ChainAfter(tx) ==
    LET sender == BigIntOf(tx.from)
    IN  IF tx.method = "setTrust"
        THEN [chain EXCEPT !.trust =
                Append(TrustWithout(sender, tx.args.toAgent),
                       [fromAgent |-> sender, toAgent |-> tx.args.toAgent,
                        trustLevel |-> tx.args.trustLevel])]
        ELSE IF tx.method = "removeTrust"
        THEN [chain EXCEPT !.trust = TrustWithout(sender, tx.args.toAgent)]
        ELSE IF tx.method = "registerInteraction"
        THEN [chain EXCEPT !.interactions =
                Append(@, [agentA |-> tx.args.agentA, agentB |-> tx.args.agentB,
                           interactionHash |-> tx.args.interactionHash,
                           interactionType |-> tx.args.interactionType,
                           timestamp |-> BlockTime, verified |-> FALSE])]
        ELSE IF tx.method = "registerSchema"
        THEN [chain EXCEPT !.schemas =
                Append(@, [namespace |-> tx.args.namespace, name |-> tx.args.name,
                           description |-> tx.args.description,
                           allowedTags |-> tx.args.allowedTags,
                           minScore |-> tx.args.minScore,
                           maxScore |-> tx.args.maxScore,
                           creator |-> tx.from, createdAt |-> BlockTime,
                           active |-> TRUE])]
        ELSE chain

LedgerAfter(tx) ==
    IF tx.method = "submitAttestation" /\ tx.args.toAgent = Subject
    THEN Append(ledger,
                [fromAgent |-> BigIntOf(tx.from), toAgent |-> tx.args.toAgent,
                 namespace |-> tx.args.namespace, tag |-> tx.args.tag,
                 score |-> tx.args.score, interactionId |-> tx.args.interactionId,
                 comment |-> tx.args.comment, timestamp |-> BlockTime])
    ELSE ledger

NewId(tx) ==
    IF tx.method = "registerInteraction" THEN RegistryId(Len(chain.interactions) + 1)
    ELSE RegistryId(Len(chain.schemas) + 1)

\* The chain settles the i-th transaction: it is mined, with its logs and its
\* effect on the contracts, or it reverts.
Mine(i, mined) ==
    /\ i \in DOMAIN txs
    /\ txs[i].status = "pending"
    /\ IF mined
       THEN /\ \E logs \in LogChoices(txs[i].method, NewId(txs[i])) :
                 txs' = [txs EXCEPT ![i].status = "mined", ![i].logs = logs]
            /\ chain' = ChainAfter(txs[i])
            /\ ledger' = LedgerAfter(txs[i])
       ELSE /\ txs' = [txs EXCEPT ![i].status = "reverted"]
            /\ UNCHANGED <<chain, ledger>>
    /\ UNCHANGED <<last, earlier, config, sdk, op>>

\* The reads of the contracts.
ContractHasInteracted(agentA, agentB) ==
    \E i \in DOMAIN chain.interactions :
        {chain.interactions[i].agentA, chain.interactions[i].agentB} = {agentA, agentB}

ContractGetInteraction(interactionId) ==
    chain.interactions[CHOOSE n \in DOMAIN chain.interactions :
                            RegistryId(n) = interactionId]

ContractGetInteractionsBetween(agentA, agentB) ==
    LET ids == [n \in DOMAIN chain.interactions |-> n]
        between == SelectSeq(ids, LAMBDA n :
                      {chain.interactions[n].agentA, chain.interactions[n].agentB}
                          = {agentA, agentB})
    IN  [k \in DOMAIN between |-> RegistryId(between[k])]

ContractGetSchemaByNamespace(namespace) ==
    chain.schemas[CHOOSE n \in DOMAIN chain.schemas :
                      /\ chain.schemas[n].namespace = namespace
                      /\ \A m \in 1..(n - 1) : chain.schemas[m].namespace # namespace]

ContractIsSchemaActive(namespace) ==
    \E n \in DOMAIN chain.schemas :
        chain.schemas[n].namespace = namespace /\ chain.schemas[n].active

ContractGetTrustLevel(fromAgent, toAgent) ==
    IF \E i \in DOMAIN chain.trust :
          chain.trust[i].fromAgent = fromAgent /\ chain.trust[i].toAgent = toAgent
    THEN LET i == CHOOSE k \in DOMAIN chain.trust :
                     chain.trust[k].fromAgent = fromAgent /\ chain.trust[k].toAgent = toAgent
         IN  chain.trust[i].trustLevel
    ELSE 0

ContractGetTrustedAgents(agentId) ==
    LET edges == SelectSeq(chain.trust, LAMBDA t : t.fromAgent = agentId)
    IN  [k \in DOMAIN edges |-> edges[k].toAgent]

ContractGetAttestationsByTag(agentId, namespace, tag) ==
    SelectSeq(GetAttestations,
              LAMBDA id : ledger[id].namespace = namespace /\ ledger[id].tag = tag)

(***************************************************************************)
(* The methods of the SDK.  One call is made at a time: a method is called *)
(* when the call before it is done.                                        *)
(***************************************************************************)
\* No more than MaxTxs transactions are sent in a run.
MaxTxs == 2

SignerRequiredForWrite == "Signer required for write operations"

SignerRequired == "Signer required"

\* await contract.method(args) on a write method: the transaction is sent, or
\* the call is rejected (no funds, the node refuses it) and the method throws.
InvokeWrite(name, params, binding, method, args, sent) ==
    LET calls == <<Invocation(binding, method, args)>>
    IN  IF sent
        THEN /\ Len(txs) < MaxTxs
             /\ txs' = Append(txs, Transaction(sdk[binding], method, args))
             /\ op' = Called(Waiting(name, calls, Len(txs) + 1), <<params>>)
        ELSE /\ txs' = txs
             /\ op' = Called(Thrown(name, calls, 0, "transaction rejected"), <<params>>)

\* The receipt tx.wait() resolves with; it rejects when the transaction reverted.
Receipt(i) == [hash |-> TxHash(i), logs |-> txs[i].logs]

\* The second topic of the first log of the receipt, whatever its first topic.
EventIdFirstLog(receipt, event) ==
    IF receipt.logs = <<>> THEN ""
    ELSE IF Len(receipt.logs[1].topics) < 2 THEN ""
    ELSE receipt.logs[1].topics[2]

\* receipt.logs.find((log) => log.topics[0] === eventFragment.topicHash),
\* then event?.topics[1] || ''
EventId(receipt, event) ==
    LET found == SelectSeq(receipt.logs, LAMBDA log : log.topics[1] = TopicHash(event))
    IN  IF found = <<>> THEN ""
        ELSE IF Len(found[1].topics) < 2 THEN ""
        ELSE found[1].topics[2]

\* await tx.wait() of the call in flight, then the rest of the method, which
\* returns the value made from the receipt.
AwaitReceipt(name, value) ==
    /\ op.pc = "wait"
    /\ op.name = name
    /\ txs[op.tx].status # "pending"
    /\ op' = IF txs[op.tx].status = "reverted"
             THEN Called(Thrown(name, op.calls, op.tx, "transaction failed"), op.args)
             ELSE Called(Returned(name, op.calls, op.tx, value), op.args)
    /\ UNCHANGED <<ledger, last, earlier, config, sdk, chain, txs>>

\* params.interactionHash as bytes32: as it is when it starts with 0x and has
\* 66 characters, else the keccak256 of its UTF-8 bytes.
ToUtf8Bytes(s) == "utf8(" \o s \o ")"

Keccak256(bytes) == "0xkeccak256(" \o bytes \o ")"

\* The length left unchecked: every string that starts with 0x passes as it is.
HashBytes32PrefixOnly(interactionHash) ==
    IF Len(interactionHash) >= 2 /\ SubSeq(interactionHash, 1, 2) = "0x"
    THEN interactionHash
    ELSE Keccak256(ToUtf8Bytes(interactionHash))

HashBytes32(interactionHash) ==
    IF Len(interactionHash) >= 2 /\ SubSeq(interactionHash, 1, 2) = "0x"
            /\ Len(interactionHash) = 66
    THEN interactionHash
    ELSE Keccak256(ToUtf8Bytes(interactionHash))

\* agentA taken from the caller's object when it has one.
RegisterInteractionGivenAgentA(params, sent) ==
    /\ op.pc = "done"
    /\ IF sdk.signer = Undefined
       THEN /\ op' = Called(Thrown("registerInteraction", <<>>, 0, SignerRequiredForWrite),
                            <<params>>)
            /\ txs' = txs
       ELSE LET agentA == IF "agentA" \in DOMAIN params THEN params.agentA
                          ELSE BigIntOf(CHOOSE a \in sdk.signer : TRUE)
            IN  InvokeWrite("registerInteraction", params, "interactionRegistry",
                            "registerInteraction",
                            [agentA |-> agentA, agentB |-> params.agentB,
                             interactionHash |-> HashBytes32(params.interactionHash),
                             interactionType |-> params.interactionType], sent)
    /\ UNCHANGED <<ledger, last, earlier, config, sdk, chain>>

\* registerInteraction(params), up to the transaction sent.
RegisterInteraction(params, sent) ==
    /\ op.pc = "done"
    /\ IF sdk.signer = Undefined
       THEN /\ op' = Called(Thrown("registerInteraction", <<>>, 0, SignerRequiredForWrite),
                            <<params>>)
            /\ txs' = txs
       ELSE LET agentA == BigIntOf(CHOOSE a \in sdk.signer : TRUE)
            IN  InvokeWrite("registerInteraction", params, "interactionRegistry",
                            "registerInteraction",
                            [agentA |-> agentA, agentB |-> params.agentB,
                             interactionHash |-> HashBytes32(params.interactionHash),
                             interactionType |-> params.interactionType], sent)
    /\ UNCHANGED <<ledger, last, earlier, config, sdk, chain>>

InteractionResult(receipt) ==
    [interactionId |-> EventId(receipt, "InteractionRegistered"),
     txHash        |-> receipt.hash]

RegisterInteractionReceipt == AwaitReceipt("registerInteraction", InteractionResult(Receipt(op.tx)))

\* registerSchema(params), up to the transaction sent.
RegisterSchema(params, sent) ==
    /\ op.pc = "done"
    /\ IF sdk.signer = Undefined
       THEN /\ op' = Called(Thrown("registerSchema", <<>>, 0, SignerRequiredForWrite),
                            <<params>>)
            /\ txs' = txs
       ELSE InvokeWrite("registerSchema", params, "schemaRegistry", "registerSchema",
                        [namespace |-> params.namespace, name |-> params.name,
                         description |-> params.description,
                         allowedTags |-> params.allowedTags,
                         minScore |-> params.minScore,
                         maxScore |-> params.maxScore], sent)
    /\ UNCHANGED <<ledger, last, earlier, config, sdk, chain>>

SchemaResult(receipt) == EventId(receipt, "SchemaRegistered")

RegisterSchemaReceipt == AwaitReceipt("registerSchema", SchemaResult(Receipt(op.tx)))

\* A write that does not wait for the receipt before it returns the hash.
SetTrustNoWait(params, sent) ==
    /\ op.pc = "done"
    /\ IF sdk.signer = Undefined
       THEN /\ op' = Called(Thrown("setTrust", <<>>, 0, SignerRequiredForWrite),
                            <<params>>)
            /\ txs' = txs
       ELSE IF sent
       THEN /\ Len(txs) < MaxTxs
            /\ txs' = Append(txs, Transaction(sdk.trustGraph, "setTrust",
                                [toAgent |-> params.toAgent,
                                 trustLevel |-> params.trustLevel]))
            /\ op' = Returned("setTrust",
                              <<Invocation("trustGraph", "setTrust",
                                   [toAgent |-> params.toAgent,
                                    trustLevel |-> params.trustLevel])>>,
                              Len(txs) + 1, TxHash(Len(txs) + 1))
       ELSE /\ txs' = txs
            /\ op' = Thrown("setTrust", <<>>, 0, "transaction rejected")
    /\ UNCHANGED <<ledger, last, earlier, config, sdk, chain>>

\* setTrust(params), up to the transaction sent.
SetTrust(params, sent) ==
    /\ op.pc = "done"
    /\ IF sdk.signer = Undefined
       THEN /\ op' = Called(Thrown("setTrust", <<>>, 0, SignerRequiredForWrite),
                            <<params>>)
            /\ txs' = txs
       ELSE InvokeWrite("setTrust", params, "trustGraph", "setTrust",
                        [toAgent |-> params.toAgent,
                         trustLevel |-> params.trustLevel], sent)
    /\ UNCHANGED <<ledger, last, earlier, config, sdk, chain>>

HashResult(receipt) == receipt.hash

SetTrustReceipt == AwaitReceipt("setTrust", HashResult(Receipt(op.tx)))

\* removeTrust(toAgent), up to the transaction sent.
RemoveTrust(toAgent, sent) ==
    /\ op.pc = "done"
    /\ IF sdk.signer = Undefined
       THEN /\ op' = Called(Thrown("removeTrust", <<>>, 0, SignerRequiredForWrite),
                            <<toAgent>>)
            /\ txs' = txs
       ELSE InvokeWrite("removeTrust", toAgent, "trustGraph", "removeTrust",
                        [toAgent |-> toAgent], sent)
    /\ UNCHANGED <<ledger, last, earlier, config, sdk, chain>>

RemoveTrustReceipt == AwaitReceipt("removeTrust", HashResult(Receipt(op.tx)))

\* params.comment || ''
CommentOrEmpty(comment) ==
    IF Truthy(comment) THEN CHOOSE c \in comment : TRUE ELSE ""

\* A write that goes on to the contract without the signer check.
SubmitAttestationUnchecked(params, sent) ==
    /\ op.pc = "done"
    /\ IF sdk.signer = Undefined
       THEN /\ op' = Thrown("submitAttestation",
                            <<Invocation("trustGraph", "submitAttestation",
                                 [toAgent |-> params.toAgent])>>,
                            0, "contract runner does not support sending transactions")
            /\ txs' = txs
       ELSE InvokeWrite("submitAttestation", params, "trustGraph", "submitAttestation",
                        [toAgent |-> params.toAgent, namespace |-> params.namespace,
                         tag |-> params.tag, score |-> params.score,
                         interactionId |-> params.interactionId,
                         comment |-> CommentOrEmpty(params.comment)], sent)
    /\ UNCHANGED <<ledger, last, earlier, config, sdk, chain>>

\* submitAttestation(params), up to the transaction sent.
SubmitAttestation(params, sent) ==
    /\ op.pc = "done"
    /\ IF sdk.signer = Undefined
       THEN /\ op' = Called(Thrown("submitAttestation", <<>>, 0, SignerRequiredForWrite),
                            <<params>>)
            /\ txs' = txs
       ELSE InvokeWrite("submitAttestation", params, "trustGraph", "submitAttestation",
                        [toAgent |-> params.toAgent, namespace |-> params.namespace,
                         tag |-> params.tag, score |-> params.score,
                         interactionId |-> params.interactionId,
                         comment |-> CommentOrEmpty(params.comment)], sent)
    /\ UNCHANGED <<ledger, last, earlier, config, sdk, chain>>

SubmitAttestationReceipt == AwaitReceipt("submitAttestation", HashResult(Receipt(op.tx)))

\* A read method: one read of a contract, its result passed on; the read
\* rejects when the node cannot be reached, and the method with it.
Read(name, binding, method, args, result, reached) ==
    /\ op.pc = "done"
    /\ op' = IF reached
             THEN Returned(name, <<Invocation(binding, method, args)>>, 0, result)
             ELSE Thrown(name, <<Invocation(binding, method, args)>>, 0,
                         "could not reach the node")
    /\ UNCHANGED <<ledger, last, earlier, config, sdk, chain, txs>>

\* A read that asks for the signer first, as the writes do.
HasInteractedSigned(agentA, agentB, reached) ==
    IF sdk.signer = Undefined
    THEN /\ op.pc = "done"
         /\ op' = Thrown("hasInteracted", <<>>, 0, SignerRequired)
         /\ UNCHANGED <<ledger, last, earlier, config, sdk, chain, txs>>
    ELSE Read("hasInteracted", "interactionRegistry", "hasInteracted",
              <<agentA, agentB>>, ContractHasInteracted(agentA, agentB), reached)

HasInteracted(agentA, agentB, reached) ==
    Read("hasInteracted", "interactionRegistry", "hasInteracted",
         <<agentA, agentB>>, ContractHasInteracted(agentA, agentB), reached)

GetInteraction(interactionId, reached) ==
    /\ \E n \in DOMAIN chain.interactions : RegistryId(n) = interactionId
    /\ LET interaction == ContractGetInteraction(interactionId)
       IN  Read("getInteraction", "interactionRegistry", "getInteraction",
                <<interactionId>>,
                [agentA          |-> interaction.agentA,
                 agentB          |-> interaction.agentB,
                 interactionHash |-> interaction.interactionHash,
                 interactionType |-> interaction.interactionType,
                 timestamp       |-> interaction.timestamp,
                 verified        |-> interaction.verified], reached)

GetInteractionsBetween(agentA, agentB, reached) ==
    Read("getInteractionsBetween", "interactionRegistry", "getInteractionsBetween",
         <<agentA, agentB>>, ContractGetInteractionsBetween(agentA, agentB), reached)

GetSchema(namespace, reached) ==
    /\ \E n \in DOMAIN chain.schemas : chain.schemas[n].namespace = namespace
    /\ LET schema == ContractGetSchemaByNamespace(namespace)
       IN  Read("getSchema", "schemaRegistry", "getSchemaByNamespace", <<namespace>>,
                [namespace   |-> schema.namespace,
                 name        |-> schema.name,
                 description |-> schema.description,
                 allowedTags |-> schema.allowedTags,
                 minScore    |-> schema.minScore,
                 maxScore    |-> schema.maxScore,
                 creator     |-> schema.creator,
                 createdAt   |-> schema.createdAt,
                 active      |-> schema.active], reached)

IsSchemaActive(namespace, reached) ==
    Read("isSchemaActive", "schemaRegistry", "isSchemaActive", <<namespace>>,
         ContractIsSchemaActive(namespace), reached)

GetTrustLevel(fromAgent, toAgent, reached) ==
    Read("getTrustLevel", "trustGraph", "getTrustLevel", <<fromAgent, toAgent>>,
         ContractGetTrustLevel(fromAgent, toAgent), reached)

GetTrustedAgents(agentId, reached) ==
    Read("getTrustedAgents", "trustGraph", "getTrustedAgents", <<agentId>>,
         ContractGetTrustedAgents(agentId), reached)

\* getAttestation(attestationId) called on its own.
GetAttestationCall(attestationId, reached) ==
    /\ attestationId \in DOMAIN ledger
    /\ Read("getAttestation", "trustGraph", "getAttestation", <<attestationId>>,
            GetAttestation(attestationId), reached)

\* getAttestations(agentId) called on its own.
GetAttestationsCall(reached) ==
    Read("getAttestations", "trustGraph", "getAttestations", <<Subject>>,
         GetAttestations, reached)

GetAttestationsByTag(namespace, tag, reached) ==
    Read("getAttestationsByTag", "trustGraph", "getAttestationsByTag",
         <<Subject, namespace, tag>>,
         ContractGetAttestationsByTag(Subject, namespace, tag), reached)

\* getAgentId() and getAddress(): of the signer, which they require.
GetAgentId ==
    /\ op.pc = "done"
    /\ op' = IF sdk.signer = Undefined
             THEN Thrown("getAgentId", <<>>, 0, SignerRequired)
             ELSE Returned("getAgentId", <<>>, 0,
                           BigIntOf(CHOOSE a \in sdk.signer : TRUE))
    /\ UNCHANGED <<ledger, last, earlier, config, sdk, chain, txs>>

GetAddress ==
    /\ op.pc = "done"
    /\ op' = IF sdk.signer = Undefined
             THEN Thrown("getAddress", <<>>, 0, SignerRequired)
             ELSE Returned("getAddress", <<>>, 0, CHOOSE a \in sdk.signer : TRUE)
    /\ UNCHANGED <<ledger, last, earlier, config, sdk, chain, txs>>

(***************************************************************************)
(* Bounded inputs.                                                         *)
(***************************************************************************)
\* All sequences over a set of records of length at most n.
Ledgers(atts, n) == UNION {[1..k -> atts] : k \in 0..n}

\* The chain with nothing registered.
EmptyChain == [interactions |-> <<>>, schemas |-> <<>>, trust |-> <<>>]

\* A read-only instance, constructed without a private key, facing a subject
\* with one of the ledgers.
InitOver(ledgers) ==
    /\ ledger \in ledgers
    /\ last = <<>>
    /\ earlier = <<>>
    /\ config = Config(Undefined)
    /\ sdk = AgentTrustSDK(config)
    /\ chain = EmptyChain
    /\ txs = <<>>
    /\ op = NoCall

\* Two namespaces and two tags whose keys a:c, a:b:c and a:b:b:c make three
\* groups, (a:b, c) and (a, b:c) sharing one key; two scores in the group a:c.
Atts ==
    {Attestation("a", "c", 1, 100), Attestation("a", "c", 0, 200),
     Attestation("a:b", "b:c", 1, 100),
     Attestation("a:b", "c", 0, 100), Attestation("a", "b:c", 1, 300)}

Queries ==
    {NoQuery,
     Query(Some("a"), Undefined), Query(Undefined, Some("c")),
     Query(Some("a:b"), Some("c")),
     Query(Some(""), Undefined), Query(Some("a"), Some("")),
     Query(Some("x"), Undefined)}

MaxAtts == 3

Init == InitOver(Ledgers(Atts, MaxAtts))

Next == \E query \in Queries, keep \in BOOLEAN : GetWeightedReputation(query, keep)

Spec == Init /\ [][Next]_vars

\* Longer ledgers, for what depends on the order of several groups.
OrderAtts ==
    {Attestation("a", "c", 1, 100), Attestation("a:b", "b:c", 1, 100),
     Attestation("a:b", "c", 0, 100), Attestation("a", "b:c", 1, 300)}

OrderQueries == {NoQuery, Query(Some("a:b"), Undefined)}

MaxOrder == 5

InitOrder == InitOver(Ledgers(OrderAtts, MaxOrder))

NextOrder == \E query \in OrderQueries : GetWeightedReputation(query, FALSE)

SpecOrder == InitOrder /\ [][NextOrder]_vars

\* Ledgers up to and past the risk thresholds: a short free prefix, then
\* copies of one record.
RiskAtts == {Attestation("a", "c", 1, 100), Attestation("a:b", "c", 0, 200)}

RiskFill == Attestation("a", "c", 1, 100)

RiskQueries == {NoQuery, Query(Some("a"), Undefined), Query(Some("x"), Undefined)}

MaxRisk == 22

RiskPrefix == 2

RiskLedgers ==
    {[i \in 1..n |-> IF i <= Len(p) THEN p[i] ELSE RiskFill] :
        p \in Ledgers(RiskAtts, RiskPrefix), n \in RiskPrefix..MaxRisk}

InitRisk == InitOver(RiskLedgers)

NextRisk == \E query \in RiskQueries : GetWeightedReputation(query, FALSE)

SpecRisk == InitRisk /\ [][NextRisk]_vars

\* Ledgers of up to three groups laid one after the other, each of one to
\* MaxGroupSize attestations: a first score of 0 or 1, then zeros.
GroupNamespaces == <<"a", "b">>

GroupTags == <<"c", "d", "e">>

\* The pair of the k-th group: (a, c), (b, c), (a, d), (b, d), ...
GroupPair(k) ==
    <<GroupNamespaces[((k - 1) % 2) + 1], GroupTags[((k - 1) \div 2) + 1]>>

MaxGroups == 3

MaxGroupSize == 5

GroupShapes == [size : 1..MaxGroupSize, first : {0, 1}]

GroupOf(shape, k) ==
    [i \in 1..shape.size |->
        Attestation(GroupPair(k)[1], GroupPair(k)[2],
                    IF i = 1 THEN shape.first ELSE 0, 100)]

RECURSIVE GroupsFrom(_, _)
GroupsFrom(shapes, k) ==
    IF k > Len(shapes) THEN <<>> ELSE GroupOf(shapes[k], k) \o GroupsFrom(shapes, k + 1)

GroupLedgers ==
    {GroupsFrom(shapes, 1) : shapes \in UNION {[1..n -> GroupShapes] : n \in 0..MaxGroups}}

MeansQueries == {NoQuery, Query(Some("a"), Undefined)}

InitMeans == InitOver(GroupLedgers)

NextMeans == \E query \in MeansQueries : GetWeightedReputation(query, FALSE)

SpecMeans == InitMeans /\ [][NextMeans]_vars

\* The instance with or without a signer, its write methods, its utility
\* methods and getWeightedReputation called one after the other with fixed
\* arguments, and the chain settling what was sent.
\* The subject starts with one attestation, of another agent.
SdkLedgers == {<<Attestation("a", "c", 1, 100)>>}

SdkQueries == {NoQuery, Query(Some("a"), Some("d"))}

PrivateKeys == {Undefined, Some(""), Some("0xkey")}

RegisterInteractionParams ==
    {[agentB |-> Subject, interactionHash |-> "ipfs://QmHash",
      interactionType |-> "service_delivery"]}

RegisterSchemaParams ==
    {[namespace |-> "a", name |-> "A", description |-> "", allowedTags |-> <<"c", "d">>,
      minScore |-> 0, maxScore |-> 100]}

SetTrustParams == {[toAgent |-> Subject, trustLevel |-> 85]}

SubmitAttestationParams ==
    {[toAgent |-> Subject, namespace |-> "a", tag |-> "d", score |-> 0,
      interactionId |-> RegistryId(1), comment |-> Undefined]}

\* A chain on which other agents have registered an interaction and a schema
\* and set a trust level.
SeededChain ==
    [interactions |-> <<[agentA |-> 7, agentB |-> Subject,
                         interactionHash |-> Keccak256(ToUtf8Bytes("ipfs://QmSeed")),
                         interactionType |-> "service_delivery",
                         timestamp |-> 100, verified |-> FALSE]>>,
     schemas      |-> <<[namespace |-> "a", name |-> "A", description |-> "",
                         allowedTags |-> <<"c", "d">>, minScore |-> 0,
                         maxScore |-> 100, creator |-> "0x09", createdAt |-> 100,
                         active |-> TRUE]>>,
     trust        |-> <<[fromAgent |-> 7, toAgent |-> Subject, trustLevel |-> 50]>>]

InitSDK ==
    /\ ledger \in SdkLedgers
    /\ last = <<>>
    /\ earlier = <<>>
    /\ config \in {Config(privateKey) : privateKey \in PrivateKeys}
    /\ sdk = AgentTrustSDK(config)
    /\ chain \in {EmptyChain, SeededChain}
    /\ txs = <<>>
    /\ op = NoCall

NextSDK ==
    \/ \E params \in RegisterInteractionParams, sent \in BOOLEAN :
          RegisterInteraction(params, sent)
    \/ RegisterInteractionReceipt
    \/ \E params \in RegisterSchemaParams, sent \in BOOLEAN : RegisterSchema(params, sent)
    \/ RegisterSchemaReceipt
    \/ \E params \in SetTrustParams, sent \in BOOLEAN : SetTrust(params, sent)
    \/ SetTrustReceipt
    \/ \E sent \in BOOLEAN : RemoveTrust(Subject, sent)
    \/ RemoveTrustReceipt
    \/ \E params \in SubmitAttestationParams, sent \in BOOLEAN :
          SubmitAttestation(params, sent)
    \/ SubmitAttestationReceipt
    \/ \E i \in 1..MaxTxs, mined \in BOOLEAN : Mine(i, mined)
    \/ \E query \in SdkQueries : GetWeightedReputation(query, FALSE)
    \/ GetAgentId
    \/ GetAddress

SpecSDK == InitSDK /\ [][NextSDK]_vars

\* The read methods, called one after the other on an instance with or
\* without a signer, on a chain that holds nothing or what other agents
\* registered, for a subject with up to MaxReadAtts attestations.
ReadAtts == {Attestation("a", "c", 1, 100), Attestation("a", "d", 0, 200)}

MaxReadAtts == 2

InitReads ==
    /\ ledger \in Ledgers(ReadAtts, MaxReadAtts)
    /\ last = <<>>
    /\ earlier = <<>>
    /\ config \in {Config(privateKey) : privateKey \in PrivateKeys}
    /\ sdk = AgentTrustSDK(config)
    /\ chain \in {EmptyChain, SeededChain}
    /\ txs = <<>>
    /\ op = NoCall

NextReads ==
    \/ \E reached \in BOOLEAN : HasInteracted(BigIntOf(SignerAddress), Subject, reached)
    \/ \E reached \in BOOLEAN : GetInteraction(RegistryId(1), reached)
    \/ \E reached \in BOOLEAN :
          GetInteractionsBetween(BigIntOf(SignerAddress), Subject, reached)
    \/ \E reached \in BOOLEAN : GetSchema("a", reached)
    \/ \E reached \in BOOLEAN : IsSchemaActive("a", reached)
    \/ \E reached \in BOOLEAN : GetTrustLevel(BigIntOf(SignerAddress), Subject, reached)
    \/ \E reached \in BOOLEAN : GetTrustedAgents(BigIntOf(SignerAddress), reached)
    \/ \E id \in 1..MaxReadAtts, reached \in BOOLEAN : GetAttestationCall(id, reached)
    \/ \E reached \in BOOLEAN : GetAttestationsCall(reached)
    \/ \E reached \in BOOLEAN : GetAttestationsByTag("a", "d", reached)
    \/ \E query \in SdkQueries : GetWeightedReputation(query, FALSE)

SpecReads == InitReads /\ [][NextReads]_vars

\* Ledgers with scores from the two ends and the inside of a schema's range,
\* in two groups.
RangeAtts ==
    {Attestation(ns, "c", sc, 100) : ns \in {"a", "b"}, sc \in {1, 2, 100}}

RangeQueries == {NoQuery, Query(Some("a"), Undefined)}

MaxRange == 4

InitRange == InitOver(Ledgers(RangeAtts, MaxRange))

NextRange == \E query \in RangeQueries : GetWeightedReputation(query, FALSE)

SpecRange == InitRange /\ [][NextRange]_vars

\* The two register methods called with every kind of interactionHash, with
\* other agents and types and with an object that carries an agentA of its
\* own, by an instance with or without a signer; at most MaxRegister
\* transactions are sent.
Hex16 == "0123456789abcdef"

Hex64 == Hex16 \o Hex16 \o Hex16 \o Hex16

InteractionHashes ==
    {"0x" \o Hex64,                      \* 66 characters, 0x first
     "0X" \o Hex64,                      \* 66 characters, 0X first
     "Qm" \o Hex64,                      \* 66 characters, no prefix
     "0x" \o SubSeq(Hex64, 1, 63),       \* 65 characters, 0x first
     "0x" \o Hex64 \o "0",               \* 67 characters, 0x first
     "ipfs://QmHash", "0", ""}

InteractionInputs ==
    {[agentB |-> Subject, interactionHash |-> h, interactionType |-> "service_delivery"] :
        h \in InteractionHashes}
    \cup {[agentB |-> 2, interactionHash |-> h, interactionType |-> "payment",
           agentA |-> 9] : h \in {"0x" \o Hex64, "ipfs://QmHash"}}

MaxRegister == 1

InitRegister ==
    /\ ledger \in SdkLedgers
    /\ last = <<>>
    /\ earlier = <<>>
    /\ config \in {Config(privateKey) : privateKey \in PrivateKeys}
    /\ sdk = AgentTrustSDK(config)
    /\ chain \in {EmptyChain, SeededChain}
    /\ txs = <<>>
    /\ op = NoCall

NextRegister ==
    \/ \E params \in InteractionInputs, sent \in BOOLEAN :
          /\ Len(txs) < MaxRegister
          /\ RegisterInteraction(params, sent)
    \/ RegisterInteractionReceipt
    \/ \E params \in RegisterSchemaParams, sent \in BOOLEAN :
          /\ Len(txs) < MaxRegister
          /\ RegisterSchema(params, sent)
    \/ RegisterSchemaReceipt
    \/ \E i \in 1..MaxRegister, mined \in BOOLEAN : Mine(i, mined)
    \/ GetAgentId

SpecRegister == InitRegister /\ [][NextRegister]_vars

\* Ledgers in which some attestations have an empty namespace or an empty tag
\* and others not, and queries whose fields are left out, empty or set.
EmptyAtts ==
    {Attestation("", "c", 1, 100), Attestation("a", "", 0, 100),
     Attestation("a", "c", 1, 200), Attestation("", "", 0, 300)}

EmptyQueries ==
    {NoQuery} \cup
    {Query(ns, tg) : ns \in {Undefined, Some(""), Some("a")},
                     tg \in {Undefined, Some(""), Some("c")}}

MaxEmpty == 3

InitEmpty == InitOver(Ledgers(EmptyAtts, MaxEmpty))

NextEmpty == \E query \in EmptyQueries : GetWeightedReputation(query, FALSE)

SpecEmpty == InitEmpty /\ [][NextEmpty]_vars

\* An instance with a signer that submits attestations for the subject and
\* asks for the subject's reputation, in any order, the caller keeping or not
\* the result of the call before.
InitCache ==
    /\ ledger \in SdkLedgers
    /\ last = <<>>
    /\ earlier = <<>>
    /\ config = Config(Some("0xkey"))
    /\ sdk = AgentTrustSDK(config)
    /\ chain = EmptyChain
    /\ txs = <<>>
    /\ op = NoCall

NextCache ==
    \/ \E params \in SubmitAttestationParams, sent \in BOOLEAN :
          SubmitAttestation(params, sent)
    \/ SubmitAttestationReceipt
    \/ \E i \in 1..MaxTxs, mined \in BOOLEAN : Mine(i, mined)
    \/ \E query \in SdkQueries, keep \in BOOLEAN : GetWeightedReputation(query, keep)

SpecCache == InitCache /\ [][NextCache]_vars

\* The fetches of a call completing in every order.
FetchAtts == {Attestation("a", "c", 1, 100), Attestation("b", "d", 0, 200)}

FetchQueries == {NoQuery, Query(Some("a"), Undefined)}

MaxFetch == 3

InitFetch == InitOver(Ledgers(FetchAtts, MaxFetch))

NextFetch ==
    \/ \E query \in FetchQueries : GetWeightedReputationStart(query)
    \/ \E i \in 1..MaxFetch : FetchCompletes(i)
    \/ GetWeightedReputationAggregate

SpecFetch == InitFetch /\ [][NextFetch]_vars

\* The fetches of a call completing in every order, any of them or the read
\* of the ids failing.
MaxFail == 3

InitFail == InitOver(Ledgers(FetchAtts, MaxFail))

NextFail ==
    \/ \E query \in FetchQueries : GetWeightedReputationStart(query)
    \/ \E query \in FetchQueries : GetAttestationsFails(query)
    \/ \E i \in 1..MaxFail : FetchCompletes(i)
    \/ \E i \in 1..MaxFail : FetchFails(i)
    \/ GetWeightedReputationAggregate

SpecFail == InitFail /\ [][NextFail]_vars

(***************************************************************************)
(* Properties.                                                             *)
(***************************************************************************)
Made == last # <<>>

\* A query field filters when it holds a non-empty string.
Filters(opt) == opt # Undefined /\ opt # Some("")

\* The attestation matches every filtering field of the query.
Matches(att, query) ==
    /\ Filters(query.namespace) => att.namespace \in query.namespace
    /\ Filters(query.tag) => att.tag \in query.tag

\* The attestations of the call that match its query, in order.
Matching(call) ==
    SelectSeq(call.attestations, LAMBDA a : Matches(a, call.query))

RECURSIVE IntSum(_, _)
IntSum(atts, i) == IF i > Len(atts) THEN 0 ELSE atts[i].score + IntSum(atts, i + 1)

\* The arithmetic mean of the scores of a non-empty sequence of attestations:
\* the integer sum divided by the count, as a number.
ArithmeticMean(atts) == DivInt(FromInt(IntSum(atts, 1)), Len(atts))

PairOf(att) == <<att.namespace, att.tag>>

\* C1: byCategory has exactly one entry per distinct (namespace, tag) pair
\* among the attestations that pass the filter, and the entry of a pair is the
\* arithmetic mean of the scores of exactly the attestations of that pair.
C1_OneEntryPerPair ==
    Made =>
        LET call    == last[1]
            passing == Matching(call)
            pairs   == {PairOf(passing[i]) : i \in DOMAIN passing}
            entries == call.report.byCategory
        IN  /\ Len(entries) = Cardinality(pairs)
            /\ \A pr \in pairs :
                 \E i \in DOMAIN entries :
                    /\ entries[i].key = pr[1] \o ":" \o pr[2]
                    /\ entries[i].value =
                         ArithmeticMean(SelectSeq(passing, LAMBDA a : PairOf(a) = pr))

Outsider == Attestation("zz", "zz", 1, 0)

\* The records, of Atts or not, that a query filters out.
FilteredOut(query) == {f \in Atts \cup {Outsider} : ~Matches(f, query)}

\* The matching attestations of the call followed by copies of f, to the
\* length of the call's input.
MatchingThenCopies(call, f) ==
    Matching(call) \o [i \in 1..(Len(call.attestations) - Len(Matching(call))) |-> f]

\* C4: two inputs of the same length with the same sub-sequence of matching
\* attestations give identical reports.  Every input s shares its length and
\* its matching sub-sequence with MatchingThenCopies(s, f), for every f the
\* query filters out, and two inputs that share them share that sequence: the
\* claim is that every input gives the report of that sequence.
C4_FilteredOutHasNoInfluence ==
    Made =>
        \A f \in FilteredOut(last[1].query) :
            WeightedReputation(MatchingThenCopies(last[1], f), last[1].query)
                = last[1].report

\* C4 witness: some attestations pass the filter and some do not, and these
\* still count in totalAttestations.
C4_Witness ==
    /\ Made
    /\ Len(Matching(last[1])) > 0
    /\ Len(Matching(last[1])) < Len(last[1].attestations)
    /\ \E f \in FilteredOut(last[1].query) :
          MatchingThenCopies(last[1], f) # last[1].attestations
    /\ last[1].report.totalAttestations = Len(last[1].attestations)

\* C5: byCategory and overall are those of exactly the attestations that match
\* every filtering field of the query (namespace and tag compose with AND); a
\* field holding the empty string filters nothing.
C5_FiltersComposeWithAnd ==
    Made =>
        LET only == WeightedReputation(Matching(last[1]), NoQuery)
        IN  /\ last[1].report.byCategory = only.byCategory
            /\ last[1].report.overall = only.overall

\* C5 witness: both fields filter, one attestation has the namespace but not
\* the tag, another has both.
C5_Witness ==
    /\ Made
    /\ Filters(last[1].query.namespace) /\ Filters(last[1].query.tag)
    /\ \E i \in DOMAIN last[1].attestations :
          /\ last[1].attestations[i].namespace \in last[1].query.namespace
          /\ last[1].attestations[i].tag \notin last[1].query.tag
    /\ Len(Matching(last[1])) > 0

\* C6: totalAttestations is the number of ids getAttestations returned, for
\* every filter.
C6_TotalIsUnfilteredCount ==
    Made => last[1].report.totalAttestations = Len(GetAttestations)

\* C6 witness: a filter that matches none of several attestations.
C6_Witness ==
    /\ Made
    /\ Len(ledger) >= 2
    /\ Matching(last[1]) = <<>>
    /\ last[1].report.totalAttestations = Len(ledger)

\* C7: with no attestation the report is overall 0, byCategory empty,
\* totalAttestations 0 and riskLevel critical, for every filter.
C7_EmptySetReport ==
    (Made /\ ledger = <<>>) =>
        /\ last[1].report.overall = Zero
        /\ last[1].report.byCategory = <<>>
        /\ last[1].report.totalAttestations = 0
        /\ last[1].report.riskLevel = "critical"

\* C7 witness: a call with a filtering query on an empty ledger.
C7_Witness ==
    /\ Made
    /\ ledger = <<>>
    /\ Filters(last[1].query.namespace)

RangeOf(s) == {s[i] : i \in DOMAIN s}

\* The copies in s of each value of the set, value after value in a fixed order.
RECURSIVE Gather(_, _)
Gather(values, s) ==
    IF values = {} THEN <<>>
    ELSE LET v == CHOOSE x \in values : TRUE
         IN  SelectSeq(s, LAMBDA a : a = v) \o Gather(values \ {v}, s)

\* One arrangement for all the reorderings of s.
Arranged(s) == Gather(RangeOf(s), s)

KeyOf(att) == att.namespace \o ":" \o att.tag

\* The keys of s in the order in which they first appear.
RECURSIVE FirstKeys(_, _, _)
FirstKeys(s, i, keys) ==
    IF i > Len(s) THEN keys
    ELSE FirstKeys(s, i + 1,
                   IF \E j \in DOMAIN keys : keys[j] = KeyOf(s[i])
                   THEN keys ELSE Append(keys, KeyOf(s[i])))

RECURSIVE GatherGroups(_, _, _)
GatherGroups(keys, i, s) ==
    IF i > Len(keys) THEN <<>>
    ELSE Arranged(SelectSeq(s, LAMBDA a : KeyOf(a) = keys[i]))
            \o GatherGroups(keys, i + 1, s)

\* One arrangement for all the reorderings of the call's input in which the
\* keys first appear, among the attestations that match the query, in the same
\* order as in the input: the matching ones group by group, then the others.
ArrangedByGroup(call) ==
    GatherGroups(FirstKeys(Matching(call), 1, <<>>), 1, Matching(call))
        \o Arranged(SelectSeq(call.attestations, LAMBDA a : ~Matches(a, call.query)))

EntrySet(report) == {report.byCategory[i] : i \in DOMAIN report.byCategory}

\* The same key set with the same value per key, riskLevel and totalAttestations.
SameButOverall(r1, r2) ==
    /\ EntrySet(r1) = EntrySet(r2)
    /\ Len(r1.byCategory) = Len(r2.byCategory)
    /\ r1.riskLevel = r2.riskLevel
    /\ r1.totalAttestations = r2.totalAttestations

\* C10 as stated: every reordering of the attestations gives the same overall,
\* byCategory (keys and values), riskLevel and totalAttestations.  All the
\* reorderings of an input share Arranged(input): the statement is that every
\* input gives the outcome of that arrangement.
C10_AnyOrderSameReport ==
    Made =>
        LET arranged == WeightedReputation(Arranged(last[1].attestations), last[1].query)
        IN  /\ SameButOverall(last[1].report, arranged)
            /\ last[1].report.overall = arranged.overall

\* C10 amended: every reordering gives the same byCategory (keys and values),
\* riskLevel and totalAttestations; overall is the same for every reordering
\* that keeps the order in which the keys first appear among the attestations
\* that pass the filter, and for every reordering when byCategory has at most
\* two entries.
C10_OrderOfGroupsOnly ==
    Made =>
        LET arranged == WeightedReputation(Arranged(last[1].attestations), last[1].query)
            byGroup  == WeightedReputation(ArrangedByGroup(last[1]), last[1].query)
        IN  /\ SameButOverall(last[1].report, arranged)
            /\ last[1].report.overall = byGroup.overall
            /\ last[1].report.byCategory = byGroup.byCategory
            /\ Len(last[1].report.byCategory) <= 2 =>
                    last[1].report.overall = arranged.overall

\* C10 witness: three groups, in an input that is neither of its arrangements.
C10_Witness ==
    /\ Made
    /\ Len(last[1].report.byCategory) = 3
    /\ last[1].attestations # Arranged(last[1].attestations)
    /\ last[1].attestations # ArrangedByGroup(last[1])
    /\ Len(last[1].attestations) > Len(last[1].report.byCategory)

\* A number proper: neither of the results of a division by zero.
IsNumber(x) == x # NaN /\ x # Infinity

\* x <= y on numbers proper.
Leq(x, y) ==
    IF IsZero(x) THEN TRUE
    ELSE IF IsZero(y) THEN FALSE
    ELSE \/ x.e < y.e
         \/ x.e = y.e /\ x.hi < y.hi
         \/ x.e = y.e /\ x.hi = y.hi /\ x.lo <= y.lo

\* C11 as stated: with non-negative scores overall is a number >= 0, and
\* overall never exceeds the largest per-group mean of byCategory.
C11_OverallAtMostLargestMean ==
    Made =>
        LET report == last[1].report
        IN  /\ IsNumber(report.overall) /\ Leq(Zero, report.overall)
            /\ report.byCategory # <<>> =>
                  \E i \in DOMAIN report.byCategory :
                      Leq(report.overall, report.byCategory[i].value)

\* C11 amended: with non-negative scores overall is a number >= 0; overall
\* never exceeds the largest score among the attestations that pass the
\* filter; and it never exceeds the largest per-group mean when byCategory
\* has at most two entries.
C11_OverallAtMostLargestScore ==
    Made =>
        LET report  == last[1].report
            passing == Matching(last[1])
        IN  /\ IsNumber(report.overall) /\ Leq(Zero, report.overall)
            /\ report.byCategory # <<>> =>
                  \E i \in DOMAIN passing :
                      Leq(report.overall, FromInt(passing[i].score))
            /\ (report.byCategory # <<>> /\ Len(report.byCategory) <= 2) =>
                  \E i \in DOMAIN report.byCategory :
                      Leq(report.overall, report.byCategory[i].value)

\* C11 witness: three groups whose means are all below overall, which is
\* still no more than the largest score.
C11_Witness ==
    /\ Made
    /\ Len(last[1].report.byCategory) = 3
    /\ \A i \in DOMAIN last[1].report.byCategory :
          ~Leq(last[1].report.overall, last[1].report.byCategory[i].value)
    /\ Leq(last[1].report.overall, FromInt(1))

KeySet(report) == {report.byCategory[i].key : i \in DOMAIN report.byCategory}

\* C12: for every attestation sequence and every filter, the byCategory keys of
\* the filtered report are among the byCategory keys of the report made with no
\* filter on the same attestations.
C12_FilterNarrowsKeys ==
    Made =>
        KeySet(last[1].report)
            \subseteq KeySet(WeightedReputation(last[1].attestations, NoQuery))

\* C12 witness: a filter that keeps some of the keys and drops others.
C12_Witness ==
    /\ Made
    /\ Filters(last[1].query.namespace) \/ Filters(last[1].query.tag)
    /\ KeySet(last[1].report) # {}
    /\ KeySet(last[1].report) # KeySet(WeightedReputation(last[1].attestations, NoQuery))

\* C13: for every sequence of fetched attestations and every filter the call
\* returns a defined report: overall and every byCategory value are numbers
\* proper, riskLevel is one of the four levels, totalAttestations is a count;
\* and every group whose mean is computed holds at least one score.
C13_AggregationIsTotal ==
    Made =>
        LET report == last[1].report
            groups == GroupByCategory(
                        FilteredAttestations(last[1].attestations, last[1].query))
        IN  /\ \A i \in DOMAIN groups : Len(groups[i].scores) >= 1
            /\ IsNumber(report.overall)
            /\ \A i \in DOMAIN report.byCategory : IsNumber(report.byCategory[i].value)
            /\ report.riskLevel \in {"low", "medium", "high", "critical"}
            /\ report.totalAttestations \in Nat
            /\ report.decayFactor = 98 /\ report.suspicionScore = 0

\* C13 witness: the degenerate input, a call without a query for a subject
\* that has no attestation.
C13_Witness ==
    /\ Made
    /\ ~last[1].query.given
    /\ last[1].attestations = <<>>
    /\ last[1].report.overall = Zero

\* The step starts, resumes or completes a call of a method.
OpChanged ==
    \/ op'.name # op.name
    \/ op'.pc # op.pc
    \/ op'.tx # op.tx
    \/ op'.threw # op.threw

\* The step is a call of getWeightedReputation.
ReputationStep ==
    \/ last' # last
    \/ OpChanged /\ op'.name = "getWeightedReputation"

\* C14: a call of getWeightedReputation leaves the fields of the instance, the
\* ledger, the contracts and the transactions sent as they were, it invokes
\* only the reads getAttestations and getAttestation, and the records it
\* holds after the call are the records the contract returned, in their order.
C14_ReputationHasNoSideEffect ==
    [][ReputationStep =>
          /\ UNCHANGED <<sdk, config, ledger, chain, txs>>
          /\ \A i \in DOMAIN op'.calls :
                /\ op'.calls[i].contract = "trustGraph"
                /\ op'.calls[i].method \in {"getAttestations", "getAttestation"}
          /\ last'[1].attestations = [i \in DOMAIN ledger |-> ledger[i]]
          /\ last'[1].query \in SdkQueries]_vars

\* C14 witness: a call made by an instance with a signer, after a transaction
\* of its own added an attestation with a lower score than the first.
C14_Witness ==
    /\ Made
    /\ op.name = "getWeightedReputation"
    /\ sdk.signer # Undefined
    /\ Len(txs) >= 1
    /\ Len(ledger) >= 2
    /\ last[1].attestations = ledger
    /\ ledger[1].score > ledger[2].score

WriteMethods ==
    {"registerInteraction", "registerSchema", "setTrust", "removeTrust",
     "submitAttestation"}

\* C15: on an instance constructed without a private key (or with an empty
\* one) every call of a write method throws 'Signer required for write
\* operations' without invoking a contract method; no transaction is ever
\* sent and the ledger and the contracts stay as they are.
C15_WriteWithoutSignerFails ==
    [][(~Truthy(config.privateKey) /\ OpChanged /\ op'.name \in WriteMethods) =>
          /\ op'.pc = "done"
          /\ op'.threw
          /\ op'.value = <<"Signer required for write operations">>
          /\ op'.calls = <<>>
          /\ txs = <<>> /\ txs' = <<>>
          /\ UNCHANGED <<ledger, chain, sdk>>]_vars

\* C15 witness: registerInteraction has thrown on an instance constructed
\* without a private key.
C15_Witness ==
    /\ config.privateKey = Undefined
    /\ op.name = "registerInteraction"
    /\ op.threw
    /\ txs = <<>>

ReadMethods ==
    {"hasInteracted", "getInteraction", "getInteractionsBetween", "getSchema",
     "isSchemaActive", "getTrustLevel", "getTrustedAgents", "getAttestation",
     "getAttestations", "getAttestationsByTag", "getWeightedReputation"}

\* What the contract returns for the read a call made, by the arguments of
\* the invocation.
ContractRead(call) ==
    LET args == call.calls[1].args
    IN  CASE call.name = "hasInteracted" -> ContractHasInteracted(args[1], args[2])
          [] call.name = "getInteraction" -> ContractGetInteraction(args[1])
          [] call.name = "getInteractionsBetween" ->
                ContractGetInteractionsBetween(args[1], args[2])
          [] call.name = "getSchema" -> ContractGetSchemaByNamespace(args[1])
          [] call.name = "isSchemaActive" -> ContractIsSchemaActive(args[1])
          [] call.name = "getTrustLevel" -> ContractGetTrustLevel(args[1], args[2])
          [] call.name = "getTrustedAgents" -> ContractGetTrustedAgents(args[1])
          [] call.name = "getAttestation" -> ledger[args[1]]
          [] call.name = "getAttestations" -> [i \in DOMAIN ledger |-> i]
          [] call.name = "getAttestationsByTag" ->
                ContractGetAttestationsByTag(args[1], args[2], args[3])
          [] call.name = "getWeightedReputation" ->
                WeightedReputation(ledger, last[1].query)

\* C16: on an instance constructed without a private key (or with an empty
\* one) no read method throws a signer-required error: a call throws only
\* when the read of the contract fails, and otherwise returns what the
\* contract returns for the read.
C16_ReadsNeedNoSigner ==
    (~Truthy(config.privateKey) /\ op.name \in ReadMethods) =>
        /\ op.pc = "done"
        /\ op.calls # <<>>
        /\ op.threw => op.value = <<"could not reach the node">>
        /\ ~op.threw => op.value = <<ContractRead(op)>>

\* C16 witness: getInteraction has returned an interaction to an instance
\* constructed without a private key.
C16_Witness ==
    /\ config.privateKey = Undefined
    /\ op.name = "getInteraction"
    /\ ~op.threw
    /\ op.value[1].agentB = Subject

HashMethods == {"setTrust", "removeTrust", "submitAttestation"}

ColonString(att) == att.namespace \o ":" \o att.tag

\* C18: the byCategory keys are the strings namespace + ":" + tag of the
\* attestations that pass the filter, one entry per string, and the entry of
\* a string is the mean of exactly the passing attestations with that string:
\* two passing attestations share a group if and only if their strings are equal.
C18_KeyIsNamespaceColonTag ==
    Made =>
        LET passing == Matching(last[1])
            strings == {ColonString(passing[i]) : i \in DOMAIN passing}
            entries == last[1].report.byCategory
        IN  /\ Len(entries) = Cardinality(strings)
            /\ \A k \in strings :
                 \E i \in DOMAIN entries :
                    /\ entries[i].key = k
                    /\ entries[i].value =
                         ArithmeticMean(SelectSeq(passing, LAMBDA a : ColonString(a) = k))

\* C18 witness: attestations of two different (namespace, tag) pairs with the
\* same string in one group, beside a group of another string.
C18_Witness ==
    /\ Made
    /\ Len(last[1].report.byCategory) = 2
    /\ \E i, j \in DOMAIN last[1].attestations :
          /\ PairOf(last[1].attestations[i]) # PairOf(last[1].attestations[j])
          /\ ColonString(last[1].attestations[i]) = ColonString(last[1].attestations[j])
          /\ last[1].attestations[i].score # last[1].attestations[j].score
    /\ Len(Matching(last[1])) = 3

\* C19: when the filter matches none of a non-empty attestation set,
\* byCategory is empty and overall is 0, and totalAttestations and riskLevel
\* are those of the report made with no filter.
C19_NoMatchKeepsCountAndRisk ==
    (Made /\ last[1].attestations # <<>> /\ Matching(last[1]) = <<>>) =>
        LET report     == last[1].report
            unfiltered == WeightedReputation(last[1].attestations, NoQuery)
        IN  /\ report.byCategory = <<>>
            /\ report.overall = Zero
            /\ report.totalAttestations = Len(last[1].attestations)
            /\ report.totalAttestations = unfiltered.totalAttestations
            /\ report.riskLevel = unfiltered.riskLevel
            /\ Len(last[1].attestations) > 20 => report.riskLevel = "low"

\* C19 witness: more than 20 attestations, none matching: overall 0, rated low.
C19_Witness ==
    /\ Made
    /\ Len(last[1].attestations) > 20
    /\ Matching(last[1]) = <<>>
    /\ last[1].report.overall = Zero
    /\ last[1].report.byCategory = <<>>
    /\ last[1].report.riskLevel = "low"
    /\ last[1].report.totalAttestations = Len(last[1].attestations)

\* C20: whatever the order in which the fetches of a call complete, the
\* aggregation runs only when all of them have completed, and the report
\* returned is the report of the records fetched one by one in the order of
\* the ids getAttestations returned.
C20_FetchOrderHasNoInfluence ==
    [][(last' # last \/ (op.pc = "fetch" /\ op'.pc = "done")) =>
          LET fetch      == op.value[1]
              sequential == [i \in DOMAIN fetch.attestationIds |->
                                GetAttestation(fetch.attestationIds[i])]
          IN  /\ op.pc = "fetch" /\ op'.pc = "done"
              /\ Len(fetch.arrival) = Len(fetch.attestationIds)
              /\ \A i \in DOMAIN fetch.slots : fetch.slots[i] # <<>>
              /\ last'[1].attestations = sequential
              /\ last'[1].report = WeightedReputation(sequential, fetch.query)
              /\ op'.value = <<last'[1].report>>
              /\ ~op'.threw]_vars

\* C20 witness: a report returned after the fetches completed last id first,
\* on records of two groups.
C20_Witness ==
    /\ Made
    /\ op.pc = "done"
    /\ Len(last[1].arrival) = 3
    /\ last[1].arrival[1] = 3 /\ last[1].arrival[3] = 1
    /\ Len(last[1].report.byCategory) = 2
    /\ last[1].attestations[1] # last[1].attestations[3]

\* The report of the records of a ledger for a query, stated from the records:
\* one entry per key among the matching records, holding the mean of their
\* scores, the mean of the entries, and the count and risk level of all.
IsReportOf(report, records, query) ==
    LET matching == SelectSeq(records, LAMBDA a : Matches(a, query))
        keys     == {ColonString(matching[i]) : i \in DOMAIN matching}
        meanOf(key) == ArithmeticMean(SelectSeq(matching, LAMBDA a : ColonString(a) = key))
        values   == [i \in DOMAIN report.byCategory |-> report.byCategory[i].value]
    IN  /\ {report.byCategory[i].key : i \in DOMAIN report.byCategory} = keys
        /\ Len(report.byCategory) = Cardinality(keys)
        /\ \A i \in DOMAIN report.byCategory :
              report.byCategory[i].value = meanOf(report.byCategory[i].key)
        /\ report.overall = IF keys = {} THEN Zero ELSE DivInt(SumOf(values), Len(values))
        /\ report.totalAttestations = Len(records)
        /\ report.riskLevel = (IF Len(records) > 20 THEN "low"
                               ELSE IF Len(records) > 10 THEN "medium"
                               ELSE IF Len(records) > 5 THEN "high" ELSE "critical")

\* C21: whatever submitAttestation and getWeightedReputation calls came
\* before, a getWeightedReputation call reads the ids and every record of the
\* ledger as it is during the call, and the report it returns is the report
\* of these records, not one kept from an earlier call.
C21_NoCacheNoIncrementalUpdate ==
    [][ReputationStep =>
          /\ op'.calls = ReputationCalls([i \in DOMAIN ledger |-> i])
          /\ ~op'.threw
          /\ op'.value[1] = last'[1].report
          /\ IsReportOf(last'[1].report, ledger, last'[1].query)]_vars

\* C21 witness: a call with the query of a kept earlier call, made after an
\* attestation submitted in between was mined, returns another report.
C21_Witness ==
    /\ Made
    /\ earlier # <<>>
    /\ op.name = "getWeightedReputation"
    /\ earlier[1].query = last[1].query
    /\ Len(earlier[1].ledger) < Len(last[1].ledger)
    /\ earlier[1].report # last[1].report
    /\ last[1].ledger = ledger

\* The smallest and the largest score of a non-empty sequence of records.
MinScore(atts) ==
    CHOOSE m \in {atts[i].score : i \in DOMAIN atts} :
        \A i \in DOMAIN atts : m <= atts[i].score

MaxScore(atts) ==
    CHOOSE m \in {atts[i].score : i \in DOMAIN atts} :
        \A i \in DOMAIN atts : m >= atts[i].score

Within(x, lo, hi) == IsNumber(x) /\ Leq(FromInt(lo), x) /\ Leq(x, FromInt(hi))

\* C22: with every score of the fetched attestations in a range [lo, hi],
\* every byCategory value and, when byCategory is not empty, overall lie in
\* [lo, hi]; the value of a group lies between the smallest and the largest
\* score of the group.  Stated for the narrowest range, which every range
\* holding all the scores contains.
C22_ValuesWithinScoreRange ==
    (Made /\ last[1].attestations # <<>>) =>
        LET report == last[1].report
            lo     == MinScore(last[1].attestations)
            hi     == MaxScore(last[1].attestations)
            group(key) == SelectSeq(Matching(last[1]), LAMBDA a : ColonString(a) = key)
        IN  /\ \A i \in DOMAIN report.byCategory :
                  /\ Within(report.byCategory[i].value, lo, hi)
                  /\ Within(report.byCategory[i].value,
                            MinScore(group(report.byCategory[i].key)),
                            MaxScore(group(report.byCategory[i].key)))
            /\ report.byCategory # <<>> => Within(report.overall, lo, hi)

\* C22 witness: every score is at least 1, there are two groups, one with
\* three scores whose mean is not a score, and overall is neither end of the
\* range.
C22_Witness ==
    /\ Made
    /\ Len(last[1].report.byCategory) = 2
    /\ MinScore(last[1].attestations) = 1
    /\ MaxScore(last[1].attestations) = 100
    /\ \E i \in DOMAIN last[1].report.byCategory :
          last[1].report.byCategory[i].value = DivInt(FromInt(4), 3)
    /\ last[1].report.overall # FromInt(1)
    /\ last[1].report.overall # FromInt(100)

\* s.startsWith(prefix)
StartsWith(s, prefix) ==
    Len(s) >= Len(prefix) /\ SubSeq(s, 1, Len(prefix)) = prefix

\* C23: the interactionHash registerInteraction passes to the contract is the
\* caller's string if and only if the string starts with 0x and has 66
\* characters, and otherwise the keccak256 of its UTF-8 bytes: a value fixed
\* by the string alone, the same in the invocation and in the transaction.
C23_HashPassedOrHashed ==
    (op.name = "registerInteraction" /\ op.calls # <<>>) =>
        LET input  == op.args[1].interactionHash
            passed == op.calls[1].args.interactionHash
        IN  /\ (passed = input) <=> (StartsWith(input, "0x") /\ Len(input) = 66)
            /\ passed # input => passed = "0xkeccak256(utf8(" \o input \o "))"
            /\ op.tx > 0 => txs[op.tx].args.interactionHash = passed

\* C23 witness: a string of 65 characters that starts with 0x was sent hashed.
C23_Witness ==
    /\ op.name = "registerInteraction"
    /\ op.tx > 0
    /\ StartsWith(op.args[1].interactionHash, "0x")
    /\ Len(op.args[1].interactionHash) = 65
    /\ txs[op.tx].args.interactionHash # op.args[1].interactionHash

\* The id a register method returns for a receipt: the second topic of the
\* first of the logs whose first topic is the topic hash of the event, or the
\* empty string when no log has it.
FirstEventId(logs, event) ==
    LET hits == {i \in DOMAIN logs : logs[i].topics[1] = TopicHash(event)}
    IN  IF hits = {} THEN ""
        ELSE logs[CHOOSE i \in hits : \A j \in hits : i <= j].topics[2]

\* C24: registerInteraction returns as interactionId, and registerSchema as
\* its result, the second topic of the first log of the receipt whose first
\* topic is the topic hash of InteractionRegistered, resp. SchemaRegistered,
\* and the empty string when the receipt has no such log; txHash is the hash
\* of the receipt in both cases.
C24_IdFromFirstMatchingLog ==
    (op.pc = "done" /\ ~op.threw /\ op.tx > 0) =>
        /\ op.name = "registerInteraction" =>
              /\ op.value[1].interactionId
                    = FirstEventId(txs[op.tx].logs, "InteractionRegistered")
              /\ op.value[1].txHash = TxHash(op.tx)
        /\ op.name = "registerSchema" =>
              op.value[1] = FirstEventId(txs[op.tx].logs, "SchemaRegistered")

\* C24 witness: registerInteraction returned the id of a receipt whose first
\* log is of another kind and whose second log is the event.
C24_Witness ==
    /\ op.pc = "done" /\ ~op.threw /\ op.tx > 0
    /\ op.name = "registerInteraction"
    /\ Len(txs[op.tx].logs) = 2
    /\ txs[op.tx].logs[1].topics[1] # TopicHash("InteractionRegistered")
    /\ op.value[1].interactionId = txs[op.tx].logs[2].topics[2]
    /\ op.value[1].interactionId # ""

\* C27: every registerInteraction transaction of the instance, and every
\* invocation of the contract method, carries as agentA the agent id of the
\* instance's signer, the integer of the signer's address that getAgentId
\* returns, whatever the caller's object holds; the interaction the contract
\* records for it has that agentA.
C27_AgentAIsSignersAgentId ==
    /\ \A i \in DOMAIN txs :
          txs[i].method = "registerInteraction" =>
              /\ sdk.signer # Undefined
              /\ txs[i].args.agentA = BigIntOf(CHOOSE a \in sdk.signer : TRUE)
              /\ txs[i].args.agentA = BigIntOf(txs[i].from)
    /\ (op.name = "registerInteraction" /\ op.calls # <<>>) =>
          /\ op.calls[1].args.agentA = BigIntOf(CHOOSE a \in sdk.signer : TRUE)
          /\ op.calls[1].args.agentB = op.args[1].agentB
          /\ op.calls[1].args.interactionType = op.args[1].interactionType
    /\ (op.name = "getAgentId" /\ ~op.threw) =>
          \A i \in DOMAIN txs :
              txs[i].method = "registerInteraction" => txs[i].args.agentA = op.value[1]
    /\ \A i \in DOMAIN txs :
          (txs[i].method = "registerInteraction" /\ txs[i].status = "mined") =>
              chain.interactions[Len(chain.interactions)].agentA
                  = BigIntOf(CHOOSE a \in sdk.signer : TRUE)

\* C27 witness: an object with an agentA of its own, another agentB and
\* another type was sent and mined, and getAgentId was called after it.
C27_Witness ==
    /\ op.name = "getAgentId" /\ ~op.threw
    /\ \E i \in DOMAIN txs :
          /\ txs[i].method = "registerInteraction"
          /\ txs[i].status = "mined"
          /\ txs[i].args.agentB = 2
          /\ txs[i].args.agentA = op.value[1]
          /\ txs[i].args.agentA # 9

\* The query with its fields that hold the empty string left out.
Omitting(query) ==
    [query EXCEPT !.namespace = IF @ = Some("") THEN Undefined ELSE @,
                  !.tag       = IF @ = Some("") THEN Undefined ELSE @]

\* The records with the namespace and the tag of a query whose fields, the
\* empty string included, all filter when they are set.
Strictly(records, query) ==
    SelectSeq(records, LAMBDA a :
        /\ query.namespace # Undefined => a.namespace \in query.namespace
        /\ query.tag # Undefined => a.tag \in query.tag)

\* C25: a query field that holds the empty string is taken as not set: the
\* report is the report of the call with that field left out, also when some
\* attestations have an empty namespace (or tag) and others have not.
C25_EmptyStringIsNotSet ==
    Made =>
        /\ last[1].report = WeightedReputation(last[1].attestations,
                                               Omitting(last[1].query))
        /\ IsReportOf(last[1].report, last[1].attestations, Omitting(last[1].query))

\* C25 witness: the namespace of the query is the empty string, one record
\* has an empty namespace and another has not, and the report holds both,
\* which a filter on the empty namespace would not.
C25_Witness ==
    /\ Made
    /\ last[1].query.namespace = Some("")
    /\ \E i, j \in DOMAIN last[1].attestations :
          /\ last[1].attestations[i].namespace = ""
          /\ last[1].attestations[j].namespace # ""
    /\ Len(Strictly(last[1].attestations, last[1].query)) < Len(Matching(last[1]))
    /\ Len(last[1].report.byCategory) >= 2

\* The step ends a call of getWeightedReputation.
ReputationEnds ==
    /\ op'.name = "getWeightedReputation"
    /\ op'.pc = "done"
    /\ op.pc = "fetch" \/ OpChanged \/ op'.calls # op.calls \/ last' # last

\* C26: a getWeightedReputation call that ends when the read of the ids has
\* failed, or before every getAttestation of its ids has given its record,
\* throws the error of a read that failed, and returns no report: the result
\* is the error and the last report made stays that of an earlier call.  A
\* call returns a report only when every read has succeeded.
C26_FetchFailureFailsTheCall ==
    [][ReputationEnds =>
          LET idsRead == op.pc = "fetch"
              pending == IF idsRead
                         THEN {i \in DOMAIN op.value[1].slots : op.value[1].slots[i] = <<>>}
                         ELSE {}
              failed  == IF idsRead
                         THEN {"could not reach the node: getAttestation("
                                  \o ToString(op.value[1].attestationIds[i]) \o ")" :
                               i \in pending}
                         ELSE {"could not reach the node: getAttestations("
                                  \o ToString(Subject) \o ")"}
          IN  IF idsRead /\ pending = {}
              THEN /\ ~op'.threw
                   /\ op'.value[1] = last'[1].report
                   /\ Len(last'[1].attestations) = Len(ledger)
              ELSE /\ op'.threw
                   /\ op'.value[1] \in failed
                   /\ last' = last]_vars

\* C26 witness: a call on a ledger of three records threw the error of the
\* fetch of the second id, and the last report is still that of an earlier call.
C26_Witness ==
    /\ op.name = "getWeightedReputation"
    /\ op.threw
    /\ Len(op.calls) = 4
    /\ op.value[1] = "could not reach the node: getAttestation(2)"
    /\ Made
    /\ Len(last[1].report.byCategory) = 2

====
